---- MODULE Spec2Model ----
(***************************************************************************)
(* Token lifecycle, vehicle cache and tool/resource handlers of the Tesla  *)
(* MCP server (src/src/teslaService.ts and the server entry point kept in  *)
(* src/unnamed/part_003, lines 214-568).                                   *)
(*                                                                         *)
(* Node.js runs every handler to its next network await without            *)
(* interruption, so one action is one such run: the start of a request up  *)
(* to its first HTTP call, or the arrival of an HTTP response up to the    *)
(* next HTTP call or the end of the handler.  Requests overlap only while  *)
(* they wait for the network.  The remote endpoints and the clock are the  *)
(* environment: every answer they can give is a nondeterministic input.    *)
(***************************************************************************)
EXTENDS Integers, Sequences, FiniteSets, TLC

\* ------------------------------------------------------------------ bounds
\* Number of requests that can be in flight together, and number of clock
\* advances in one behaviour, of the server (Spec).
NumRequests == 1
MaxTicks == 1
\* The same for the service called on its own (SpecToken).
TokenRequests == 2
TokenTicks == 1
\* The same with the answers of SpecPair.
PairRequests == 2
PairTicks == 1
\* Requests in flight together on the tool list (SpecListTools).
ListToolsRequests == 1
ListToolsTicks == 1
\* Requests in flight together on wake_up with raw arguments (SpecWakeArg).
WakeArgRequests == 1
\* Requests the callback server of the refresh-token utility handles (SpecOAuth).
MaxCallbacks == 2
\* Requests in flight together on the wake_up tool (SpecTools).
ToolRequests == 1
\* The same for the handlers that read the cache (SpecRead).
ReadRequests == 1
ReadTicks == 1
\* Requests in flight together on the cache (SpecCache).
CacheRequests == 2
CacheTicks == 1
\* Calls of getVehicles() in flight together (SpecList).
ListRequests == 2
\* The same for the process from its start (SpecMain).
MainRequests == 1
MainTicks == 1
\* Date.now() when the process starts (milliseconds).
StartTime == 100000

\* --------------------------------------------------------- program constants
\* const CACHE_TTL = 60000; // 1 minute
CACHE_TTL == 60000

VARIABLES
  now,               \* Date.now(), milliseconds
  ticks,             \* clock advances so far
  env,               \* process.env: which of the three credentials are set
  isRegistered,      \* TeslaService.isRegistered
  accessToken,       \* TeslaService.accessToken
  tokenExpiration,   \* TeslaService.tokenExpiration
  vehiclesCache,     \* let vehiclesCache: Vehicle[]
  lastVehicleFetch,  \* let lastVehicleFetch: number
  connected,         \* main() has connected the transport
  exited,            \* main().catch has called process.exit(1)
  req,               \* the requests in flight: position and locals of each
  last,              \* the request that ended in the step just taken, if any
  oauth              \* the refresh-token utility, a process of its own

vars == <<now, ticks, env, isRegistered, accessToken, tokenExpiration,
          vehiclesCache, lastVehicleFetch, connected, exited, req, last, oauth>>

Procs == DOMAIN req

\* ------------------------------------------------------------------ numbers
\* A JavaScript number: an integer, or NaN (what undefined * 1000 gives).
Num(n) == [nan |-> FALSE, val |-> n]
NaN == [nan |-> TRUE, val |-> 0]

\* a + b on JavaScript numbers.
JsAdd(a, b) == IF a.nan \/ b.nan THEN NaN ELSE Num(a.val + b.val)

\* a * k on JavaScript numbers.
JsTimes(a, k) == IF a.nan THEN NaN ELSE Num(a.val * k)

\* t >= x, false whenever x is NaN.
JsGeq(t, x) == ~x.nan /\ t >= x.val

\* ------------------------------------------------------------------ vehicles
Car1 == [id |-> "1", vehicle_id |-> 12345, vin |-> "VIN1",
         display_name |-> "Car", state |-> "online"]
Car2 == [id |-> "12345", vehicle_id |-> 777, vin |-> "VIN2",
         display_name |-> "", state |-> "asleep"]

\* The arrays the vehicle-list endpoint answers with.
VehicleLists == {<<>>, <<Car1>>, <<Car1, Car2>>}

\* ------------------------------------------------------------ remote answers
Tokens == {"tokA", "tokB"}

\* expires_in (seconds) of an authorization response; NaN stands for a
\* response without the field.
ExpiresIn == {Num(0), Num(3600), NaN}

AuthError == [kind |-> "error", access_token |-> "undefined", expires_in |-> NaN]

\* Answers of the authorization endpoint: a 2xx body with access_token
\* (or without: "undefined") and expires_in, or a failed call (network
\* error or non-2xx: axios rejects).
AuthResponses ==
  [kind : {"ok"}, access_token : Tokens \cup {"undefined"}, expires_in : ExpiresIn]
    \cup {AuthError}

\* The answers the server is checked with: a token valid for a minute, or a
\* failed call.
ServerAuthResponses ==
  {[kind |-> "ok", access_token |-> "tokA", expires_in |-> Num(60)], AuthError}

\* Answers with which the origin of the held pair can be told: token "tokA"
\* valid for an hour, token "tokB" valid for a minute, a 2xx body without
\* either field, or a failed call.
PairAuthResponses ==
  {[kind |-> "ok", access_token |-> "tokA", expires_in |-> Num(3600)],
   [kind |-> "ok", access_token |-> "tokB", expires_in |-> Num(60)],
   [kind |-> "ok", access_token |-> "undefined", expires_in |-> NaN],
   AuthError}

\* Answers of the vehicle-list endpoint: 2xx with data.response, 2xx without
\* it, or a failed call.
ListResponses ==
  [kind : {"ok"}, response : VehicleLists]
    \cup {[kind |-> "noresponse", response |-> <<>>],
          [kind |-> "error", response |-> <<>>]}

\* The same and, for getVehicles() called on its own, a 2xx body whose
\* response field is neither an array nor falsy (an object, a string).
RawListResponses ==
  ListResponses \cup {[kind |-> "notarray", response |-> <<>>]}

\* The answers the tool handlers are checked with.
ToolListResponses ==
  {[kind |-> "ok", response |-> <<Car1, Car2>>],
   [kind |-> "ok", response |-> <<Car2, Car1>>],
   [kind |-> "ok", response |-> <<>>],
   [kind |-> "error", response |-> <<>>]}

\* The answers overlapping cache requests are checked with.
CacheListResponses ==
  {[kind |-> "ok", response |-> <<Car1>>],
   [kind |-> "ok", response |-> <<Car2, Car1>>],
   [kind |-> "error", response |-> <<>>]}

TokenListResponses ==
  {[kind |-> "ok", response |-> <<Car1>>], [kind |-> "error", response |-> <<>>]}

\* Answers of the wake endpoint: 2xx with data.response (the vehicle state),
\* 2xx without it, or a failed call.
WakeResponses ==
  [kind : {"ok"}, state : {"online", "asleep"}]
    \cup {[kind |-> "noresponse", state |-> ""],
          [kind |-> "error", state |-> ""]}

\* Clock advances, in milliseconds.
Deltas == {59000, 61000}
TokenDeltas == {1000}
ToolDeltas == {61000}

\* --------------------------------------------------------------- requests
\* The server's handlers, and the two public methods of the exported
\* service called on their own (as testConnection.ts calls getVehicles).
ServerOps == {"ListResources", "refresh_vehicles"}
ServiceOps == {"getVehicles", "wakeUp"}

\* The wake_up tool and a tool name the server does not know; the handlers
\* that only read.
ToolOps == {"wake_up", "unknown_tool"}
ReadOps == {"ReadResource", "debug_vehicles"}

\* The callers of the cache function without forceRefresh.
GetFalseOps ==
  {"ListResources", "ReadResource", "ListTools", "wake_up", "debug_vehicles", "main"}

\* The tool list and the two tools that take no vehicle.
ListToolsOps == {"ListTools", "refresh_vehicles", "debug_vehicles"}

\* Identifiers a caller may pass to wake_up or in a resource uri.
Args == {"1", "12345", "VIN1", "zzz"}

ArgsOf(op) ==
  IF op \in {"wake_up", "ReadResource"} THEN Args
  ELSE IF op = "wakeUp" THEN {"1"}
  ELSE {""}

\* The vehicle_id of a wake_up request as the client sends it: absent, or
\* a string, which may be empty.
NoVehicleId == [given |-> FALSE, val |-> ""]

RawVehicleIds ==
  {NoVehicleId} \cup [given : {TRUE}, val : {"", "1", "zzz"}]

\* String(request.params.arguments?.vehicle_id), line 391: the string
\* itself, and "undefined" for an absent argument.
VehicleIdString(a) == IF a.given THEN a.val ELSE "undefined"

\* A request that has not started: the locals of one invocation.
\*   tools     the names of the tools ListTools returned
\*   pc        where it is suspended
\*   nowL      const now of the cache function
\*   token     const token of the service method
\*   ret       what the cache function (or the service method) returned
\*   retIsArray  Array.isArray(ret); the elements of a value that is not an
\*             array are not modelled
\*   out, msg  how the invocation ended: "ok" or "error", and its message
\*   err       the error the last TeslaService call threw
\*   found     id of the vehicle the handler resolved its argument to
\*   count     the count refresh_vehicles reports
\*   wakeId    the vehicleId wakeUp() was called with (it goes into the URL)
\*   result    const result of wake_up: the state of the vehicle wakeUp()
\*             returned, "" when it returned nothing
\*   reply     the payload the handler returns: resources, contents or the
\*             lines of debug_vehicles
\* and, kept for the properties only:
\*   fetched   the cache function called teslaService.getVehicles()
\*   n0, fetch0  vehiclesCache.length and lastVehicleFetch when the cache
\*             function was entered
\*   refresh   authorize() was called in the current service call
\*   *Calls    HTTP requests this invocation has sent
NewReq(op, arg) ==
  [pc |-> "idle", op |-> op, arg |-> arg, nowL |-> 0, token |-> "null",
   ret |-> <<>>, out |-> "", msg |-> "", err |-> "", found |-> "",
   retIsArray |-> TRUE,
   count |-> 0, wakeId |-> "", result |-> "", reply |-> <<>>, tools |-> <<>>,
   fetched |-> FALSE, n0 |-> 0, fetch0 |-> 0, refresh |-> FALSE,
   authCalls |-> 0, listCalls |-> 0, wakeCalls |-> 0]

Idle == NewReq("", "")

\* No request ended in the step just taken.
NoReply == [p |-> 0, r |-> Idle, cache0 |-> <<>>, fetch0 |-> 0,
            tok0 |-> "null", exp0 |-> Num(0)]

\* ------------------------------------------------------------ TeslaService
\* !x for a token value: null, undefined and the empty string are falsy.
Falsy(tok) == tok \in {"null", "undefined", ""}

\* Mutant of AuthorizeValidate: the refresh token is not checked.
AuthorizeValidateNoRefreshToken ==
  IF ~env.clientId THEN "TESLA_CLIENT_ID is not set"
  ELSE IF ~env.clientSecret THEN "TESLA_CLIENT_SECRET is not set"
  ELSE "ok"

\* authorize(), lines 104-112: the first credential found missing.
AuthorizeValidate ==
  IF ~env.clientId THEN "TESLA_CLIENT_ID is not set"
  ELSE IF ~env.clientSecret THEN "TESLA_CLIENT_SECRET is not set"
  ELSE IF ~env.refreshToken THEN "TESLA_REFRESH_TOKEN is not set"
  ELSE "ok"

\* authorize() up to its await: a missing credential throws inside the try
\* and is rethrown by the catch; otherwise the POST is sent.
Authorize(r, ph) ==
  IF AuthorizeValidate # "ok"
  THEN [r EXCEPT !.pc = "throw", !.refresh = TRUE,
                 !.err = "Failed to authorize with Tesla API"]
  ELSE [r EXCEPT !.pc = IF ph = "list" THEN "list_authorize" ELSE "wake_authorize",
                 !.refresh = TRUE, !.authCalls = @ + 1]

\* Mutant of NeedsRefresh: a token is still used at its expiry instant.
NeedsRefreshLate(tok, exp) == Falsy(tok) \/ (~exp.nan /\ now > exp.val)

\* getAccessToken(), line 145: if (!this.accessToken || Date.now() >= this.tokenExpiration)
NeedsRefresh(tok, exp) == Falsy(tok) \/ JsGeq(now, exp)

\* getAccessToken(), lines 150-156: after the refresh, if any.
ReturnToken(r, tok) ==
  IF Falsy(tok)
  THEN [r EXCEPT !.pc = "throw", !.err = "Could not obtain access token"]
  ELSE [r EXCEPT !.pc = "token", !.token = tok]

\* getAccessToken() up to the await inside authorize(), or to its return.
GetAccessToken(r, ph, tok, exp) ==
  IF NeedsRefresh(tok, exp) THEN Authorize(r, ph) ELSE ReturnToken(r, tok)

\* Mutant of GetVehiclesSend: the registration is not checked.
GetVehiclesSendUnchecked(r) == [r EXCEPT !.pc = "list_get", !.listCalls = @ + 1]

\* getVehicles() of the service from the token on: the registration check,
\* then the GET.  Every error of the try block becomes 'Failed to fetch vehicles'.
GetVehiclesSend(r) ==
  IF ~isRegistered
  THEN [r EXCEPT !.pc = "throw", !.err = "Failed to fetch vehicles"]
  ELSE [r EXCEPT !.pc = "list_get", !.listCalls = @ + 1]

\* wakeUp() of the service from the token on.
WakeUpSend(r) ==
  IF ~isRegistered
  THEN [r EXCEPT !.pc = "throw", !.err = "Failed to wake up vehicle"]
  ELSE [r EXCEPT !.pc = "wake_post", !.wakeCalls = @ + 1]

\* A service method after getAccessToken() has returned or thrown.
AfterToken(r, ph) ==
  IF r.pc # "token" THEN r
  ELSE IF ph = "list" THEN GetVehiclesSend(r) ELSE WakeUpSend(r)

\* teslaService.getVehicles() up to its first await or its throw.
TeslaGetVehicles(r, tok, exp) ==
  AfterToken(GetAccessToken([r EXCEPT !.token = "null", !.refresh = FALSE],
                            "list", tok, exp), "list")

\* teslaService.wakeUp(vehicleId) up to its first await or its throw.
TeslaWakeUp(r, tok, exp) ==
  AfterToken(GetAccessToken([r EXCEPT !.token = "null", !.refresh = FALSE],
                            "wake", tok, exp), "wake")

\* ------------------------------------------------------------ the handlers
\* Array.prototype.find over the answers hit[i] of its predicate: the
\* index of the first element that matches, or 0.
FindFirst(hit) ==
  IF \E i \in 1..Len(hit) : hit[i]
  THEN CHOOSE i \in 1..Len(hit) : hit[i] /\ \A j \in 1..(i - 1) : ~hit[j]
  ELSE 0

\* Mutant of WakeMatch: only the id is compared.
WakeMatchIdOnly(v, vehicleId) == v.id = vehicleId

\* wake_up, lines 398-402: id, numeric vehicle_id or vin, each as a string.
WakeMatch(v, vehicleId) ==
  \/ v.id = vehicleId
  \/ ToString(v.vehicle_id) = vehicleId
  \/ v.vin = vehicleId

\* Mutant of ReadMatch: vehicle_id and VIN match as well.
ReadMatchAny(v, vehicleId) ==
  \/ v.id = vehicleId
  \/ ToString(v.vehicle_id) = vehicleId
  \/ v.vin = vehicleId

\* ReadResource, line 310: v.id === vehicleId
ReadMatch(v, vehicleId) == v.id = vehicleId

Done(r, out, msg) == [r EXCEPT !.pc = "done", !.out = out, !.msg = msg]

\* wake_up from the call of teslaService.wakeUp on; an error of the call is
\* rethrown as 'Failed to wake up vehicle: ...'.
WakeFailed(r) == Done(r, "error", "Failed to wake up vehicle")

\* wake_up, line 409: teslaService.wakeUp(vehicleId) with the string the
\* caller supplied; wakeUp() puts it into the URL, line 199.
CallWakeUp(r, tok, exp) ==
  LET w == TeslaWakeUp([r EXCEPT !.wakeId = r.arg], tok, exp) IN
  IF w.pc = "throw" THEN WakeFailed(w) ELSE w

\* Mutant of Resources: the uri is formed from the VIN.
ResourcesByVin(vs) ==
  [k \in 1..Len(vs) |->
     [uri |-> "tesla://" \o vs[k].vin,
      mimeType |-> "application/json",
      name |-> IF vs[k].display_name # "" THEN vs[k].display_name
               ELSE "Tesla (" \o vs[k].vin \o ")"]]

\* Mutant of Resources: the display name is not used.
ResourcesNoName(vs) ==
  [k \in 1..Len(vs) |->
     [uri |-> "tesla://" \o vs[k].id,
      mimeType |-> "application/json",
      name |-> "Tesla (" \o vs[k].vin \o ")"]]

\* ListResources, lines 292-297: one descriptor per vehicle.
Resources(vs) ==
  [k \in 1..Len(vs) |->
     [uri |-> "tesla://" \o vs[k].id,
      mimeType |-> "application/json",
      name |-> IF vs[k].display_name # "" THEN vs[k].display_name
               ELSE "Tesla (" \o vs[k].vin \o ")"]]

\* ReadResource, lines 316-321: the contents for vehicle v.
Contents(vehicleId, v) ==
  <<[uri |-> "tesla://" \o vehicleId, mimeType |-> "application/json",
     vehicle |-> v]>>

\* debug_vehicles, lines 447-453: the lines written for each vehicle.
DebugInfo(vs) ==
  [k \in 1..Len(vs) |->
     [id |-> vs[k].id, vehicle_id |-> ToString(vs[k].vehicle_id),
      vin |-> vs[k].vin, state |-> vs[k].state]]

\* Mutant of RefreshCount: the count the cache had when the call began.
RefreshCountBefore(r, cache) == r.n0

\* refresh_vehicles, line 430: Found ${vehiclesCache.length} vehicles.
RefreshCount(r, cache) == Len(cache)

\* The names of the tools ListTools advertises.
ToolNames == <<"wake_up", "refresh_vehicles", "debug_vehicles">>

\* Mutant of Tools: the tools are advertised whatever the cache returns.
ToolsAlways(vs) == ToolNames

\* ListTools, lines 329-382: no tool when getVehicles() returned no
\* vehicle, the three tools otherwise.
Tools(vs) == IF Len(vs) = 0 THEN <<>> ELSE ToolNames

\* The handler from the return of the cache function on.  vs is what the
\* cache function returned, cache the cache at that moment.
AfterCacheGet(r0, vs, cache, tok, exp) ==
  LET r == [r0 EXCEPT !.ret = vs] IN
  CASE r.op = "ListResources" ->
         Done([r EXCEPT !.reply = Resources(vs)], "ok", "resources")
    [] r.op = "ListTools" ->
         Done([r EXCEPT !.tools = Tools(vs)], "ok", "tools")
    [] r.op = "ReadResource" ->
         LET i == FindFirst([k \in 1..Len(vs) |-> ReadMatch(vs[k], r.arg)]) IN
         IF i = 0 THEN Done(r, "error", "not found")
         ELSE Done([r EXCEPT !.found = vs[i].id,
                             !.reply = Contents(r.arg, vs[i])], "ok", "contents")
    [] r.op = "wake_up" ->
         LET i == FindFirst([k \in 1..Len(vs) |-> WakeMatch(vs[k], r.arg)]) IN
         IF i = 0 THEN Done(r, "error", "not found")
         ELSE CallWakeUp([r EXCEPT !.found = vs[i].id], tok, exp)
    [] r.op = "refresh_vehicles" ->
         Done([r EXCEPT !.count = RefreshCount(r, cache)], "ok",
              "Successfully refreshed the vehicle list")
    [] r.op = "debug_vehicles" ->
         IF Len(vs) = 0 THEN Done(r, "ok", "No vehicles found")
         ELSE Done([r EXCEPT !.count = Len(vs), !.reply = DebugInfo(vs)], "ok", "Found")
    [] r.op = "main" -> Done(r, "ok", "connected")

\* Mutant of MustFetch: the age of the cache is not looked at.
MustFetchNoTtl(forceRefresh) == forceRefresh \/ Len(vehiclesCache) = 0

\* Mutant of MustFetch: forceRefresh is not looked at.
MustFetchNoForce(forceRefresh) ==
  Len(vehiclesCache) = 0 \/ (now - lastVehicleFetch) > CACHE_TTL

\* Mutant of MustFetch: an empty cache is fresh within the window.
MustFetchNoEmpty(forceRefresh) ==
  forceRefresh \/ (now - lastVehicleFetch) > CACHE_TTL

\* getVehicles(forceRefresh) of the cache, line 247.
MustFetch(forceRefresh) ==
  forceRefresh \/ Len(vehiclesCache) = 0 \/ (now - lastVehicleFetch) > CACHE_TTL

\* Mutant of CacheCatch: the error is raised when the cache is empty.
CacheCatchRaise(r, cache, tok, exp) ==
  IF Len(cache) = 0 THEN Done(r, "error", r.err)
  ELSE AfterCacheGet(r, cache, cache, tok, exp)

\* Mutant of CacheCatch: [] is returned whatever the cache holds.
CacheCatchEmpty(r, cache, tok, exp) == AfterCacheGet(r, <<>>, cache, tok, exp)

\* The catch of the cache function, lines 251-260: [] for an empty cache,
\* the cache otherwise.
CacheCatch(r, cache, tok, exp) ==
  AfterCacheGet(r, IF Len(cache) = 0 THEN <<>> ELSE cache, cache, tok, exp)

\* Mutant of ListFailed: a vehicle-list request that failed is sent again,
\* once.
ListFailedRetry(r, cache, tok, exp) ==
  IF r.listCalls = 1
  THEN [r EXCEPT !.pc = "list_get", !.listCalls = 2, !.err = ""]
  ELSE IF r.op = "getVehicles" THEN Done(r, "error", r.err)
  ELSE CacheCatch(r, cache, tok, exp)

\* teslaService.getVehicles() has thrown: its direct caller gets the error,
\* the cache function catches it.
ListFailed(r, cache, tok, exp) ==
  IF r.op = "getVehicles" THEN Done(r, "error", r.err)
  ELSE CacheCatch(r, cache, tok, exp)

\* getVehicles(forceRefresh) of the cache from its call to the first await
\* or to the end of the handler.
CacheGet(r0, forceRefresh) ==
  LET r == [r0 EXCEPT !.nowL = now, !.n0 = Len(vehiclesCache),
                      !.fetch0 = lastVehicleFetch] IN
  IF MustFetch(forceRefresh)
  THEN LET s == TeslaGetVehicles([r EXCEPT !.fetched = TRUE], accessToken, tokenExpiration) IN
       IF s.pc = "throw"
       THEN ListFailed(s, vehiclesCache, accessToken, tokenExpiration)
       ELSE s
  ELSE AfterCacheGet(r, vehiclesCache, vehiclesCache, accessToken, tokenExpiration)

\* teslaService.getVehicles() called on its own.
DirectGetVehicles(r) ==
  LET s == TeslaGetVehicles(r, accessToken, tokenExpiration) IN
  IF s.pc = "throw" THEN ListFailed(s, vehiclesCache, accessToken, tokenExpiration) ELSE s

\* An invocation from its start to its first await or its end.
Handler(op, arg) ==
  LET r == NewReq(op, arg) IN
  CASE op = "getVehicles" -> DirectGetVehicles(r)
    [] op = "wakeUp" -> CallWakeUp(r, accessToken, tokenExpiration)
    [] op = "wake_up" /\ arg = "" -> Done(r, "error", "Vehicle ID is required")
    [] op = "unknown_tool" -> Done(r, "error", "Unknown tool")
    [] OTHER -> CacheGet(r, op = "refresh_vehicles")

\* Mutant of WakeAnswer: the wake request is sent again while the vehicle
\* is reported asleep.
WakeAnswerRetry(r, resp) ==
  CASE resp.kind = "ok" ->
         IF resp.state = "asleep" /\ r.wakeCalls < 2
         THEN [r EXCEPT !.wakeCalls = @ + 1]
         ELSE Done([r EXCEPT !.result = resp.state], "ok",
                   "Successfully woke up (state: " \o resp.state \o ")")
    [] resp.kind = "noresponse" -> Done(r, "ok", "Failed to wake up")
    [] resp.kind = "error" ->
         WakeFailed([r EXCEPT !.err = "Failed to wake up vehicle"])

\* wakeUp() and wake_up from the answer of the wake endpoint on, lines
\* 217-229 and 409-421: the state of the answer is reported, an answer
\* without data.response reads 'Failed to wake up', a failed call is rethrown.
WakeAnswer(r, resp) ==
  CASE resp.kind = "ok" ->
         Done([r EXCEPT !.result = resp.state], "ok",
              "Successfully woke up (state: " \o resp.state \o ")")
    [] resp.kind = "noresponse" -> Done(r, "ok", "Failed to wake up")
    [] resp.kind = "error" ->
         WakeFailed([r EXCEPT !.err = "Failed to wake up vehicle"])

\* Mutant of CacheStore: the answer is appended to what the cache holds.
CacheStoreMerge(r, vs) == [cache |-> vehiclesCache \o vs, fetch |-> r.nowL]

\* The cache function after the await of line 249: the result replaces
\* vehiclesCache and const now becomes lastVehicleFetch, lines 249-250.
CacheStore(r, vs) == [cache |-> vs, fetch |-> r.nowL]

\* Mutant of Connects: main() gives up when the preload has failed.
ConnectsOnSuccess(r) == r.pc = "done" /\ r.op = "main" /\ r.err = ""

\* main(), lines 546-560: server.connect() follows the preload, whatever
\* its outcome.
Connects(r) == r.pc = "done" /\ r.op = "main"

\* Mutant of Exits: an error of a handler ends the process.
ExitsOnError(r) == r.pc = "done" /\ r.out = "error"

\* main().catch, lines 563-567: process.exit(1) when main() rejects.  The
\* errors handlers throw are theirs; they do not reach main().
Exits(r) == r.op = "main" /\ r.pc = "throw"

\* ------------------------------------------------- the refresh-token utility
\* A parameter of the callback URL as searchParams.get() returns it: "null"
\* when the URL does not carry it, its value otherwise.
CallbackErrors == {"null", "", "access_denied"}
CallbackStates == {"null", "S1", "S2"}
CallbackCodes == {"null", "", "abc"}

\* The requests the callback server may receive.
Callbacks ==
  [path : {"/callback", "/favicon.ico"}, error : CallbackErrors,
   state : CallbackStates, code : CallbackCodes]

NoCallback == [path |-> "", error |-> "null", state |-> "null", code |-> "null"]

\* Answers of the token endpoint to the exchange of the code: a 2xx body
\* with the tokens, a 2xx body without access_token, or a failed call.
ExchangeResponses ==
  {[kind |-> "ok", refresh_token |-> "rtok"],
   [kind |-> "noaccess", refresh_token |-> "rtok"],
   [kind |-> "error", refresh_token |-> "undefined"]}

\* The utility:
\*   status      "off", "listening", or how the process ended
\*   state       const state, generated at startup
\*   callbacks   requests the server has handled
\*   cb          the request handled in the step just taken
\*   tokenCalls  POSTs sent to the token endpoint
\*   inflight    POSTs not answered yet
\*   envToken    the TESLA_REFRESH_TOKEN the script has written into .env
OAuthOff ==
  [status |-> "off", state |-> "null", callbacks |-> 0, cb |-> NoCallback,
   tokenCalls |-> 0, inflight |-> 0, envToken |-> "none"]

\* The request handler of the callback server up to its await, lines 81-130:
\* if (error) exit 1; if (returnedState !== state) exit 1; if (code) POST.
CallbackHandler(c) ==
  LET o == [oauth EXCEPT !.callbacks = @ + 1, !.cb = c] IN
  IF c.path # "/callback" THEN o
  ELSE IF ~Falsy(c.error) THEN [o EXCEPT !.status = "exit1"]
  ELSE IF c.state # oauth.state THEN [o EXCEPT !.status = "exit1"]
  ELSE IF ~Falsy(c.code)
  THEN [o EXCEPT !.tokenCalls = @ + 1, !.inflight = @ + 1]
  ELSE o

\* The handler after the await, lines 132-186: the refresh token goes into
\* .env unless the answer is unusable or the file cannot be written, and
\* the process exits with status 0.
ExchangeDone(resp, writable) ==
  [oauth EXCEPT !.inflight = @ - 1,
                !.cb = NoCallback,
                !.envToken = IF resp.kind = "ok" /\ writable
                             THEN resp.refresh_token ELSE @,
                !.status = "exit0"]

\* ------------------------------------------------------------------ actions
InitWith(n) ==
  /\ now = StartTime
  /\ ticks = 0
  /\ env \in [clientId : BOOLEAN, clientSecret : BOOLEAN, refreshToken : BOOLEAN]
  /\ isRegistered \in BOOLEAN
  /\ accessToken = "null"
  /\ tokenExpiration = Num(0)
  /\ vehiclesCache = <<>>
  /\ lastVehicleFetch = 0
  /\ exited = FALSE
  /\ req = [p \in 1..n |-> Idle]
  /\ last = NoReply
  /\ oauth = OAuthOff

\* What the step of request p that leads to record r leaves in req and last:
\* a request that has ended leaves its slot, and last shows how it ended.
Step(p, r) ==
  /\ ~exited
  /\ oauth' = oauth
  /\ exited' = Exits(r)
  /\ connected' = (connected \/ Connects(r))
  /\ IF r.pc = "done"
     THEN /\ req' = [req EXCEPT ![p] = Idle]
          /\ last' = [p |-> p, r |-> r, cache0 |-> vehiclesCache,
                      fetch0 |-> lastVehicleFetch, tok0 |-> accessToken,
                      exp0 |-> tokenExpiration]
     ELSE /\ req' = [req EXCEPT ![p] = r]
          /\ last' = NoReply

\* Time passes.
Tick(d, max) ==
  /\ ~exited
  /\ ticks < max
  /\ now' = now + d
  /\ ticks' = ticks + 1
  /\ last' = NoReply
  /\ UNCHANGED <<env, isRegistered, accessToken, tokenExpiration,
                 vehiclesCache, lastVehicleFetch, connected, exited, req, oauth>>

\* The process starts: main() calls the cache function, line 548, and runs
\* to its first await or, when nothing is awaited, to server.connect().
Main ==
  /\ ~connected
  /\ \A p \in Procs : req[p].pc = "idle"
  /\ Step(1, Handler("main", ""))
  /\ UNCHANGED <<now, ticks, env, isRegistered, accessToken, tokenExpiration,
                 vehiclesCache, lastVehicleFetch>>

\* A request arrives and runs to its first await.
Start(p, op, arg) ==
  /\ connected
  /\ req[p].pc = "idle"
  /\ Step(p, Handler(op, arg))
  /\ UNCHANGED <<now, ticks, env, isRegistered, accessToken, tokenExpiration,
                 vehiclesCache, lastVehicleFetch>>

\* A variant of TokenStore that never moves the expiry instant backwards.
TokenStoreKeepLater(resp) ==
  LET exp == JsAdd(Num(now), JsTimes(resp.expires_in, 1000)) IN
  [token |-> resp.access_token,
   expiration |-> IF ~exp.nan /\ ~tokenExpiration.nan /\ tokenExpiration.val > exp.val
                  THEN tokenExpiration ELSE exp]

\* The two assignments of authorize() after a 2xx answer, lines 128-130:
\* accessToken = data.access_token and
\* tokenExpiration = Date.now() + data.expires_in * 1000.
TokenStore(resp) ==
  [token |-> resp.access_token,
   expiration |-> JsAdd(Num(now), JsTimes(resp.expires_in, 1000))]

\* The authorization endpoint answers the POST of authorize(), lines 122-135.
AuthRespond(p, resp) ==
  LET r == req[p]
      ph == IF r.pc = "list_authorize" THEN "list" ELSE "wake"
      tok == IF resp.kind = "ok" THEN TokenStore(resp).token ELSE accessToken
      exp == IF resp.kind = "ok" THEN TokenStore(resp).expiration ELSE tokenExpiration
      a == IF resp.kind = "ok"
           THEN AfterToken(ReturnToken(r, tok), ph)
           ELSE [r EXCEPT !.pc = "throw", !.err = "Failed to authorize with Tesla API"]
  IN
  /\ r.pc \in {"list_authorize", "wake_authorize"}
  /\ accessToken' = tok
  /\ tokenExpiration' = exp
  /\ Step(p, IF a.pc # "throw" THEN a
             ELSE IF ph = "list" THEN ListFailed(a, vehiclesCache, tok, exp)
             ELSE WakeFailed(a))
  /\ UNCHANGED <<now, ticks, env, isRegistered, vehiclesCache, lastVehicleFetch>>

\* The vehicle-list endpoint answers the GET of getVehicles(), lines 170-181;
\* the cache function stores the result, lines 249-250.
ListRespond(p, resp) ==
  LET r == req[p]
      vs == resp.response
  IN
  /\ r.pc = "list_get"
  /\ IF resp.kind = "error"
     THEN /\ Step(p, ListFailed([r EXCEPT !.err = "Failed to fetch vehicles"],
                                vehiclesCache, accessToken, tokenExpiration))
          /\ UNCHANGED <<vehiclesCache, lastVehicleFetch>>
     ELSE IF r.op = "getVehicles"
     THEN /\ Step(p, Done([r EXCEPT !.ret = vs, !.retIsArray = (resp.kind # "notarray")],
                          "ok", "vehicles"))
          /\ UNCHANGED <<vehiclesCache, lastVehicleFetch>>
     ELSE /\ vehiclesCache' = CacheStore(r, vs).cache
          /\ lastVehicleFetch' = CacheStore(r, vs).fetch
          /\ Step(p, AfterCacheGet(r, vs, vs, accessToken, tokenExpiration))
  /\ UNCHANGED <<now, ticks, env, isRegistered, accessToken, tokenExpiration>>

\* A variant of WakeRespond that writes the reported state into the cached
\* entry of the vehicle the lookup resolved to.
WakeRespondStoresState(p, resp) ==
  LET r == req[p] IN
  /\ r.pc = "wake_post"
  /\ Step(p, WakeAnswer(r, resp))
  /\ vehiclesCache' =
       [k \in 1..Len(vehiclesCache) |->
          IF resp.kind = "ok" /\ vehiclesCache[k].id = r.found
          THEN [vehiclesCache[k] EXCEPT !.state = resp.state]
          ELSE vehiclesCache[k]]
  /\ UNCHANGED <<now, ticks, env, isRegistered, accessToken, tokenExpiration,
                 lastVehicleFetch>>

\* The wake endpoint answers the POST of wakeUp(), lines 203-228.
WakeRespond(p, resp) ==
  LET r == req[p] IN
  /\ r.pc = "wake_post"
  /\ Step(p, WakeAnswer(r, resp))
  /\ UNCHANGED <<now, ticks, env, isRegistered, accessToken, tokenExpiration,
                 vehiclesCache, lastVehicleFetch>>

\* The server: the handlers that read the cache, the authorization and
\* vehicle-list endpoints and the clock.
Init == InitWith(NumRequests) /\ connected = TRUE

Next ==
  \/ \E d \in Deltas : Tick(d, MaxTicks)
  \/ \E p \in Procs, op \in ServerOps : \E arg \in ArgsOf(op) : Start(p, op, arg)
  \/ \E p \in Procs, resp \in ServerAuthResponses : AuthRespond(p, resp)
  \/ \E p \in Procs, resp \in ListResponses : ListRespond(p, resp)

Spec == Init /\ [][Next]_vars

\* The service alone: overlapping calls of its two public methods, every
\* answer of the authorization endpoint.
InitToken == InitWith(TokenRequests) /\ connected = TRUE

NextToken ==
  \/ \E d \in TokenDeltas : Tick(d, TokenTicks)
  \/ \E p \in Procs, op \in ServiceOps : \E arg \in ArgsOf(op) : Start(p, op, arg)
  \/ \E p \in Procs, resp \in AuthResponses : AuthRespond(p, resp)
  \/ \E p \in Procs, resp \in TokenListResponses : ListRespond(p, resp)
  \/ \E p \in Procs, resp \in WakeResponses : WakeRespond(p, resp)

SpecToken == InitToken /\ [][NextToken]_vars

\* The service with an authorization endpoint whose answers are told apart
\* by their content: each token comes with its own validity.
InitPair ==
  /\ InitWith(PairRequests)
  /\ connected = TRUE
  /\ env.clientId /\ env.clientSecret /\ env.refreshToken

NextPair ==
  \/ \E d \in TokenDeltas : Tick(d, PairTicks)
  \/ \E p \in Procs, op \in ServiceOps : \E arg \in ArgsOf(op) : Start(p, op, arg)
  \/ \E p \in Procs, resp \in PairAuthResponses : AuthRespond(p, resp)
  \/ \E p \in Procs, resp \in TokenListResponses : ListRespond(p, resp)
  \/ \E p \in Procs, resp \in WakeResponses : WakeRespond(p, resp)

SpecPair == InitPair /\ [][NextPair]_vars

\* The wake_up tool, with the identifiers a caller may pass.
InitTools ==
  /\ InitWith(ToolRequests)
  /\ connected = TRUE
  /\ env.clientId /\ env.clientSecret

NextTools ==
  \/ \E p \in Procs, op \in ToolOps : \E arg \in ArgsOf(op) : Start(p, op, arg)
  \/ \E p \in Procs, resp \in ServerAuthResponses : AuthRespond(p, resp)
  \/ \E p \in Procs, resp \in ToolListResponses : ListRespond(p, resp)
  \/ \E p \in Procs, resp \in WakeResponses : WakeRespond(p, resp)

SpecTools == InitTools /\ [][NextTools]_vars

\* The tool list and the tools that take no vehicle.
InitListTools ==
  /\ InitWith(ListToolsRequests)
  /\ connected = TRUE
  /\ env.clientId /\ env.clientSecret

NextListTools ==
  \/ \E d \in ToolDeltas : Tick(d, ListToolsTicks)
  \/ \E p \in Procs, op \in ListToolsOps : \E arg \in ArgsOf(op) : Start(p, op, arg)
  \/ \E p \in Procs, resp \in ServerAuthResponses : AuthRespond(p, resp)
  \/ \E p \in Procs, resp \in ToolListResponses : ListRespond(p, resp)

SpecListTools == InitListTools /\ [][NextListTools]_vars

\* The wake_up tool with the vehicle_id as the client sends it.
InitWakeArg ==
  /\ InitWith(WakeArgRequests)
  /\ connected = TRUE
  /\ env.clientId /\ env.clientSecret

NextWakeArg ==
  \/ \E p \in Procs, a \in RawVehicleIds : Start(p, "wake_up", VehicleIdString(a))
  \/ \E p \in Procs, resp \in ServerAuthResponses : AuthRespond(p, resp)
  \/ \E p \in Procs, resp \in ToolListResponses : ListRespond(p, resp)
  \/ \E p \in Procs, resp \in WakeResponses : WakeRespond(p, resp)

SpecWakeArg == InitWakeArg /\ [][NextWakeArg]_vars

\* The refresh-token utility: the script from its start, lines 24-54, the
\* callbacks its server receives and the answers of the token endpoint.
InitOAuth ==
  /\ now = StartTime /\ ticks = 0
  /\ env \in [clientId : BOOLEAN, clientSecret : BOOLEAN, refreshToken : BOOLEAN]
  /\ isRegistered = FALSE
  /\ accessToken = "null" /\ tokenExpiration = Num(0)
  /\ vehiclesCache = <<>> /\ lastVehicleFetch = 0
  /\ connected = FALSE /\ exited = FALSE
  /\ req = [p \in 1..1 |-> Idle]
  /\ last = NoReply
  /\ \E s \in {"S1", "S2"} :
       oauth = [OAuthOff EXCEPT
                  !.state = s,
                  !.status = IF env.clientId /\ env.clientSecret
                             THEN "listening" ELSE "exit1"]

\* The callback server receives a request.
Callback(c) ==
  /\ oauth.status = "listening"
  /\ oauth.callbacks < MaxCallbacks
  /\ oauth' = CallbackHandler(c)
  /\ UNCHANGED <<now, ticks, env, isRegistered, accessToken, tokenExpiration,
                 vehiclesCache, lastVehicleFetch, connected, exited, req, last>>

\* The token endpoint answers the exchange of the code.
ExchangeRespond(resp, writable) ==
  /\ oauth.status = "listening"
  /\ oauth.inflight > 0
  /\ oauth' = ExchangeDone(resp, writable)
  /\ UNCHANGED <<now, ticks, env, isRegistered, accessToken, tokenExpiration,
                 vehiclesCache, lastVehicleFetch, connected, exited, req, last>>

NextOAuth ==
  \/ \E c \in Callbacks : Callback(c)
  \/ \E resp \in ExchangeResponses, writable \in BOOLEAN : ExchangeRespond(resp, writable)

SpecOAuth == InitOAuth /\ [][NextOAuth]_vars

\* The handlers that read the cache: ReadResource and debug_vehicles.
InitRead ==
  /\ InitWith(ReadRequests)
  /\ connected = TRUE
  /\ env.clientId /\ env.clientSecret

NextRead ==
  \/ \E d \in ToolDeltas : Tick(d, ReadTicks)
  \/ \E p \in Procs, op \in ReadOps : \E arg \in ArgsOf(op) : Start(p, op, arg)
  \/ \E p \in Procs, resp \in ServerAuthResponses : AuthRespond(p, resp)
  \/ \E p \in Procs, resp \in ToolListResponses : ListRespond(p, resp)

SpecRead == InitRead /\ [][NextRead]_vars

\* Overlapping requests to the cache, credentials set.
InitCache ==
  /\ InitWith(CacheRequests)
  /\ connected = TRUE
  /\ env.clientId /\ env.clientSecret /\ env.refreshToken
  /\ isRegistered

NextCache ==
  \/ \E d \in TokenDeltas : Tick(d, CacheTicks)
  \/ \E p \in Procs, op \in ServerOps : \E arg \in ArgsOf(op) : Start(p, op, arg)
  \/ \E p \in Procs, resp \in ServerAuthResponses : AuthRespond(p, resp)
  \/ \E p \in Procs, resp \in CacheListResponses : ListRespond(p, resp)

SpecCache == InitCache /\ [][NextCache]_vars

\* getVehicles() of the service called on its own, every answer of the
\* vehicle-list endpoint.
InitList ==
  /\ InitWith(ListRequests)
  /\ connected = TRUE
  /\ env.clientId /\ env.clientSecret /\ env.refreshToken

NextList ==
  \/ \E p \in Procs : Start(p, "getVehicles", "")
  \/ \E p \in Procs, resp \in ServerAuthResponses : AuthRespond(p, resp)
  \/ \E p \in Procs, resp \in RawListResponses : ListRespond(p, resp)

SpecList == InitList /\ [][NextList]_vars

\* The process from its start: the preload of main(), then the server.
InitMain == InitWith(MainRequests) /\ connected = FALSE

NextMain ==
  \/ Main
  \/ \E d \in Deltas : Tick(d, MainTicks)
  \/ \E p \in Procs, op \in ServerOps : \E arg \in ArgsOf(op) : Start(p, op, arg)
  \/ \E p \in Procs, resp \in ServerAuthResponses : AuthRespond(p, resp)
  \/ \E p \in Procs, resp \in ListResponses : ListRespond(p, resp)

SpecMain == InitMain /\ [][NextMain]_vars

\* ------------------------------------------------------- reading a step
\* The record of request p after the step: in req while it is in flight,
\* in last when the step ended it.
After(p) == IF last'.p = p THEN last'.r ELSE req'[p]

\* The step is a step of request p.
Stepped(p) == req'[p] # req[p] \/ last'.p = p

\* getAccessToken() returned a token to request p in this step.
GotToken(p) ==
  /\ Stepped(p)
  /\ After(p).token # "null"
  /\ ~(req[p].pc \in {"list_get", "wake_post"} /\ After(p).pc = "done")

\* The authorization request of p was answered in this step and the refresh
\* failed: no token came back, or the answer lacked expires_in.
RefreshFailed(p) ==
  /\ req[p].pc \in {"list_authorize", "wake_authorize"}
  /\ Stepped(p)
  /\ After(p).token = "null" \/ tokenExpiration'.nan

\* Expiry instant exp lies strictly after instant t.
ExpiryAfter(exp, t) == ~exp.nan /\ exp.val > t

CredentialMissing == ~(env.clientId /\ env.clientSecret /\ env.refreshToken)

AuthInFlight == {p \in Procs : req[p].pc \in {"list_authorize", "wake_authorize"}}

\* A request ended in the step just taken.
Replied == last.p # 0

\* ------------------------------------------------------------------ claims

\* C1: every token getAccessToken returns has an expiry instant strictly
\* greater than the instant at which it is returned.
C1_ReturnedTokenUnexpired ==
  [][\A p \in Procs : GotToken(p) => ExpiryAfter(tokenExpiration', now')]_vars

\* C2: at most one authorization request is in flight at any time.
C2_OneRefreshInFlight == Cardinality(AuthInFlight) <= 1

\* C3: whenever a refresh fails, the held access token and its expiry instant
\* are what they were before.
C3_FailedRefreshKeepsToken ==
  [][\A p \in Procs : RefreshFailed(p) => UNCHANGED <<accessToken, tokenExpiration>>]_vars

\* C4: a call of getAccessToken calls authorize exactly when no token is held
\* or the instant is at or after the expiry, and otherwise returns the held
\* token without a request; when the expiry is one second in the past and the
\* endpoint answers with a token valid for 3600 s, the call has sent one
\* request, returns that token, and an immediate second call needs no refresh.
C4_RefreshExactlyWhenDue ==
  [][\A p \in Procs :
       /\ (req[p].pc = "idle" /\ Stepped(p)) =>
            LET due == \/ accessToken \in {"null", "undefined", ""}
                       \/ (~tokenExpiration.nan /\ now >= tokenExpiration.val)
            IN /\ After(p).refresh <=> due
               /\ ~due => After(p).token = accessToken /\ After(p).authCalls = 0
       /\ ( /\ req[p].pc \in {"list_authorize", "wake_authorize"}
            /\ Stepped(p)
            /\ tokenExpiration = Num(now - 1000)
            /\ accessToken' \in Tokens
            /\ tokenExpiration' = Num(now + 3600 * 1000) ) =>
            /\ After(p).authCalls = 1
            /\ After(p).token = accessToken'
            /\ ~(now' >= tokenExpiration'.val)
  ]_vars

\* C4 witness: a call that found the expiry one second in the past has ended
\* after one request, holding the new token, valid for 3600 s.
C4_Witness ==
  /\ Replied
  /\ last.exp0 = Num(now - 1000)
  /\ last.r.authCalls = 1
  /\ last.r.token \in Tokens
  /\ last.r.token = accessToken
  /\ tokenExpiration = Num(now + 3600 * 1000)

\* C5: when the application is not registered, no network request of any
\* kind is made and every call ends with an error.
C5_UnregisteredNoNetwork ==
  ~isRegistered =>
    /\ \A p \in Procs : req[p].pc = "idle"
    /\ Replied => last.r.out = "error" /\ last.r.authCalls = 0

\* C6: with a credential absent no request reaches the authorization
\* endpoint, and a call that needs a refresh fails with the authorization
\* error.
C6_MissingCredentialFailsUnsent ==
  CredentialMissing =>
    /\ AuthInFlight = {}
    /\ (Replied /\ last.r.refresh) =>
         /\ last.r.out = "error"
         /\ last.r.err = "Failed to authorize with Tesla API"
         /\ last.r.authCalls = 0
         /\ last.r.token = "null"

\* C6 witness: only the refresh token is absent and a call has failed in
\* authorize.
C6_Witness ==
  /\ env.clientId /\ env.clientSecret /\ ~env.refreshToken
  /\ Replied /\ last.r.refresh
  /\ last.r.err = "Failed to authorize with Tesla API"

\* C7: with a credential missing, an operation that needs a token ends with
\* an error for its caller.
C7_MissingCredentialSurfaced ==
  (CredentialMissing /\ Replied) => last.r.out = "error"

\* C8 as stated: after a successful fetch at T, get(false) at T+59s returns
\* the cached vehicles without a list call and get(false) at T+61s makes
\* exactly one list call.
C8_FreshnessWindow ==
  (Replied /\ last.r.op \in GetFalseOps /\ last.r.fetch0 # 0) =>
    /\ last.r.nowL - last.r.fetch0 = 59000 =>
         /\ last.r.ret = last.cache0
         /\ Len(last.r.ret) = last.r.n0
         /\ last.r.listCalls = 0
    /\ last.r.nowL - last.r.fetch0 = 61000 => last.r.listCalls = 1

\* C8 amended: with N >= 1 cached vehicles, get(false) at T+59s returns them
\* without any network call; get(false) at T+61s calls the service, which
\* makes one list call when it gets an access token and none when it does not.
C8_FreshnessWindowAmended ==
  (Replied /\ last.r.op \in GetFalseOps /\ last.r.fetch0 # 0 /\ last.r.n0 >= 1) =>
    /\ last.r.nowL - last.r.fetch0 = 59000 =>
         /\ last.r.ret = last.cache0
         /\ Len(last.r.ret) = last.r.n0
         /\ ~last.r.fetched
         /\ last.r.listCalls = 0
         /\ last.r.authCalls = 0
    /\ last.r.nowL - last.r.fetch0 = 61000 =>
         /\ last.r.fetched
         /\ last.r.listCalls = IF last.r.token # "null" THEN 1 ELSE 0

\* C8 witness: a get(false) 61 s after the fetch of a non-empty cache has
\* ended after one list call.
C8_Witness ==
  /\ Replied /\ last.r.op \in GetFalseOps
  /\ last.r.n0 >= 1
  /\ last.r.nowL - last.r.fetch0 = 61000
  /\ last.r.listCalls = 1

\* C9 as stated: every get(true) makes exactly one list call.
C9_ForceOneCall ==
  (Replied /\ last.r.op = "refresh_vehicles") => last.r.listCalls = 1

\* C9 amended: every get(true) calls the service, whatever the cache holds;
\* the service makes one list call when it gets an access token and the
\* application is registered, and none otherwise.
C9_ForceOneCallAmended ==
  (Replied /\ last.r.op = "refresh_vehicles") =>
    /\ last.r.fetched
    /\ last.r.listCalls = IF last.r.token # "null" /\ isRegistered THEN 1 ELSE 0

\* C9 witness: a get(true) on a non-empty cache younger than 60 s has ended
\* after one list call.
C9_Witness ==
  /\ Replied /\ last.r.op = "refresh_vehicles"
  /\ last.r.n0 >= 1
  /\ last.r.nowL - last.r.fetch0 < CACHE_TTL
  /\ last.r.listCalls = 1

\* The cache function called the service and the call threw.
FetchFailed == Replied /\ last.r.fetched /\ last.r.err # ""

\* C10 as stated: a failed refresh of a non-empty cache returns the cached
\* vehicles without raising, leaves the cache and the fetch instant alone,
\* and a get(false) at the same instant would call the service again.
C10_StaleServed ==
  (FetchFailed /\ Len(last.cache0) > 0) =>
    /\ last.r.ret = last.cache0
    /\ last.r.out = "ok"
    /\ vehiclesCache = last.cache0
    /\ lastVehicleFetch = last.fetch0
    /\ MustFetch(FALSE)

\* C10 amended: the same, the retry holding when the failed call was a
\* get(false) that found the cache non-empty and no other refresh has stored
\* a result since it began.
C10_StaleServedAmended ==
  (FetchFailed /\ Len(last.cache0) > 0) =>
    /\ last.r.ret = last.cache0
    /\ last.r.out = "ok"
    /\ vehiclesCache = last.cache0
    /\ lastVehicleFetch = last.fetch0
    /\ ( /\ last.r.op \in GetFalseOps
         /\ last.r.n0 > 0
         /\ lastVehicleFetch = last.r.fetch0 ) => MustFetch(FALSE)

\* C10 witness: a get(false) on a non-empty cache has failed and was served
\* the cache.
C10_Witness ==
  /\ FetchFailed /\ last.r.op \in GetFalseOps
  /\ Len(last.cache0) > 0
  /\ last.r.ret = last.cache0
  /\ MustFetch(FALSE)

\* C11: a failed refresh of an empty cache returns the empty sequence
\* without raising and leaves the cache empty and the fetch instant as it
\* was.
C11_EmptyServedEmpty ==
  (FetchFailed /\ Len(last.cache0) = 0) =>
    /\ last.r.ret = <<>>
    /\ last.r.out = "ok"
    /\ vehiclesCache = <<>>
    /\ lastVehicleFetch = last.fetch0

\* C11 witness: the list call of a get on an empty cache has failed and the
\* caller got the empty sequence.
C11_Witness ==
  /\ FetchFailed /\ Len(last.cache0) = 0
  /\ last.r.listCalls = 1
  /\ last.r.ret = <<>>
  /\ last.r.out = "ok"

\* The arrays a single answer of the vehicle-list endpoint can carry.
OneAnswer == {resp.response : resp \in CacheListResponses}

\* C12: the cached sequence and the fetch instant change only together, in
\* the one step in which a request that waited for the vehicle list stores
\* its answer: the cache becomes exactly that answer, the fetch instant the
\* instant that request read the clock; no other step, of any request,
\* touches either.
C12_CacheReplacedWhole ==
  [][ \/ UNCHANGED <<vehiclesCache, lastVehicleFetch>>
      \/ \E p \in Procs :
           /\ req[p].pc = "list_get"
           /\ last'.p = p
           /\ last'.r.err = ""
           /\ vehiclesCache' = last'.r.ret
           /\ vehiclesCache' \in OneAnswer
           /\ lastVehicleFetch' = req[p].nowL ]_vars

\* C12 witness: a request has stored its answer, and the instant it began,
\* over what a request that began later had stored before it.
C12_Witness ==
  /\ Replied
  /\ last.r.listCalls = 1 /\ last.r.err = ""
  /\ Len(last.cache0) > 0
  /\ last.fetch0 > last.r.nowL
  /\ vehiclesCache = last.r.ret
  /\ vehiclesCache # last.cache0
  /\ lastVehicleFetch = last.r.nowL

\* The string s is the id, the vehicle_id or the VIN of vehicle v.
Carries(v, s) == s \in {v.id, ToString(v.vehicle_id), v.vin}

\* A wake_up call has ended.
WakeUpReplied == Replied /\ last.r.op = "wake_up"

\* C13 as stated: while the vehicle with id "1", vehicle_id 12345 and VIN
\* "VIN1" is among the vehicles wake_up looks through, a lookup by "1",
\* "12345" or "VIN1" resolves to it; a lookup by a string that no vehicle
\* carries ends with the not-found error and without a wake request.
C13_WakeResolution ==
  WakeUpReplied =>
    LET vs == last.r.ret IN
    /\ ( /\ \E k \in 1..Len(vs) : vs[k] = Car1
         /\ last.r.arg \in {"1", "12345", "VIN1"} ) => last.r.found = Car1.id
    /\ (\A k \in 1..Len(vs) : ~Carries(vs[k], last.r.arg)) =>
         /\ last.r.out = "error" /\ last.r.msg = "not found"
         /\ last.r.wakeCalls = 0

\* C13 amended: a lookup resolves to the first vehicle, in cache order, that
\* carries the string as its id, vehicle_id or VIN, which is the vehicle
\* meant whenever no vehicle before it carries the same string; a lookup by
\* a string that no vehicle carries ends with the not-found error and
\* without a wake request.
C13_WakeResolutionAmended ==
  WakeUpReplied =>
    LET vs == last.r.ret IN
    /\ \A k \in 1..Len(vs) :
         ( /\ Carries(vs[k], last.r.arg)
           /\ \A j \in 1..(k - 1) : ~Carries(vs[j], last.r.arg) ) =>
           last.r.found = vs[k].id
    /\ (\A k \in 1..Len(vs) : ~Carries(vs[k], last.r.arg)) =>
         /\ last.r.out = "error" /\ last.r.msg = "not found"
         /\ last.r.wakeCalls = 0

\* C13 witness: with the vehicle first in the cache, a lookup by its
\* vehicle_id, which is also the id of the second vehicle, has resolved to
\* it and the wake request has been answered.
C13_Witness ==
  /\ WakeUpReplied
  /\ last.r.ret = <<Car1, Car2>>
  /\ last.r.arg = "12345"
  /\ last.r.found = Car1.id
  /\ last.r.wakeCalls = 1

\* C14: the identifier wake_up passes to wakeUp(), which goes into the wake
\* URL, is the id of the vehicle the lookup resolved to, whichever of the
\* three forms the caller supplied.
C14_WakePathResolved ==
  (WakeUpReplied /\ last.r.wakeCalls = 1) => last.r.wakeId = last.r.found

\* C15: the step in which the wake endpoint answers ends the call: the call
\* has sent one wake request, sends no other and waits for nothing more, and
\* when the answer carries a vehicle the tool reports the state of that
\* answer, awake or not.
C15_WakeOnce ==
  [][\A p \in Procs :
       /\ req'[p].wakeCalls <= 1
       /\ (req[p].pc = "wake_post" /\ Stepped(p)) =>
            /\ After(p).pc = "done"
            /\ After(p).wakeCalls = 1
            /\ After(p).result # "" =>
                 /\ After(p).out = "ok"
                 /\ After(p).msg =
                      "Successfully woke up (state: " \o After(p).result \o ")"
  ]_vars

\* C15 witness: a wake_up call has ended after one wake request, reporting a
\* vehicle that is still asleep.
C15_Witness ==
  /\ WakeUpReplied
  /\ last.r.wakeCalls = 1
  /\ last.r.result = "asleep"
  /\ last.r.msg = "Successfully woke up (state: asleep)"

\* C16: a debug_vehicles call sends no request, whatever the cache holds and
\* however old it is, leaves the cache and the fetch instant as it found
\* them, and reports id, vehicle_id, VIN and state of the cached vehicles.
C16_DebugNeverRefreshes ==
  (Replied /\ last.r.op = "debug_vehicles") =>
    /\ last.r.authCalls = 0 /\ last.r.listCalls = 0
    /\ Len(vehiclesCache) = last.r.n0
    /\ lastVehicleFetch = last.r.fetch0
    /\ last.r.reply = DebugInfo(vehiclesCache)

\* C17: a refresh_vehicles call calls the service whatever the age of the
\* cache, the count it reports is the number of vehicles the cache holds
\* when it returns, and after an answer of the vehicle-list endpoint the
\* cache holds the vehicles of that answer, fetched at the instant the call
\* read the clock.
C17_RefreshReportsCount ==
  (Replied /\ last.r.op = "refresh_vehicles") =>
    /\ last.r.fetched
    /\ last.r.count = Len(vehiclesCache)
    /\ (last.r.listCalls = 1 /\ last.r.err = "") =>
         /\ vehiclesCache = last.r.ret
         /\ vehiclesCache \in VehicleLists
         /\ lastVehicleFetch = last.r.nowL

\* C17 witness: a refresh_vehicles call on a cache of two vehicles younger
\* than 60 s was answered with one vehicle and reports one.
C17_Witness ==
  /\ Replied /\ last.r.op = "refresh_vehicles"
  /\ last.r.n0 = 2
  /\ last.r.nowL - last.r.fetch0 < CACHE_TTL
  /\ last.r.listCalls = 1 /\ last.r.err = ""
  /\ vehiclesCache = <<Car1>>
  /\ last.r.count = 1

\* C18: a ListResources call returns one descriptor for each vehicle of the
\* cache, in its order, with the uri formed from the id of the vehicle and
\* the mime type application/json, and sends no request when it found the
\* cache non-empty and not older than 60 s.
C18_ListResources ==
  (Replied /\ last.r.op = "ListResources") =>
    /\ Len(last.r.reply) = Len(vehiclesCache)
    /\ \A k \in 1..Len(vehiclesCache) :
         /\ last.r.reply[k].uri = "tesla://" \o vehiclesCache[k].id
         /\ last.r.reply[k].mimeType = "application/json"
    /\ (last.r.n0 > 0 /\ last.r.nowL - last.r.fetch0 <= CACHE_TTL) =>
         /\ ~last.r.fetched
         /\ last.r.authCalls = 0 /\ last.r.listCalls = 0

\* C18 witness: a ListResources call on a cache of two vehicles fetched 59 s
\* before has returned their two descriptors without a request.
C18_Witness ==
  /\ Replied /\ last.r.op = "ListResources"
  /\ last.r.n0 = 2
  /\ last.r.nowL - last.r.fetch0 = 59000
  /\ last.r.listCalls = 0
  /\ Len(last.r.reply) = 2
  /\ last.r.reply[2].uri = "tesla://12345"

\* C19: a ReadResource call returns the cached vehicle whose id is exactly
\* the identifier of the uri, ends with the not-found error when the cache
\* has no such vehicle, and sends no request when it found the cache
\* non-empty and not older than 60 s, hit or miss.
C19_ReadResource ==
  (Replied /\ last.r.op = "ReadResource") =>
    /\ IF \E k \in 1..Len(vehiclesCache) : vehiclesCache[k].id = last.r.arg
       THEN /\ last.r.out = "ok"
            /\ Len(last.r.reply) = 1
            /\ last.r.reply[1].vehicle.id = last.r.arg
            /\ \E k \in 1..Len(vehiclesCache) :
                 last.r.reply[1].vehicle = vehiclesCache[k]
       ELSE last.r.out = "error" /\ last.r.msg = "not found"
    /\ (last.r.n0 > 0 /\ last.r.nowL - last.r.fetch0 <= CACHE_TTL) =>
         /\ ~last.r.fetched
         /\ last.r.authCalls = 0 /\ last.r.listCalls = 0

\* C19 witness: a read by the VIN of a vehicle of a cache younger than 60 s
\* has missed, with the not-found error and without a request.
C19_Witness ==
  /\ Replied /\ last.r.op = "ReadResource"
  /\ last.r.arg = "VIN1"
  /\ last.r.n0 = 2
  /\ last.r.nowL - last.r.fetch0 <= CACHE_TTL
  /\ last.r.out = "error" /\ last.r.msg = "not found"
  /\ ~last.r.fetched

\* C20: the transport is connected in the step that ends the preload of
\* main(), after one call of the service, and whatever the preload met; the
\* preload runs once, before any request is served; after a preload that
\* failed the cache is as it was at the start and the next get(false) calls
\* the service again.
C20_StartupPreload ==
  [][ /\ (~connected /\ connected') =>
           /\ last'.r.op = "main"
           /\ last'.r.fetched
           /\ last'.r.authCalls <= 1 /\ last'.r.listCalls <= 1
      /\ (last'.p # 0 /\ last'.r.op = "main") =>
           /\ ~connected /\ connected'
           /\ last'.r.out = "ok"
           /\ last'.r.err # "" =>
                /\ vehiclesCache' = <<>> /\ lastVehicleFetch' = 0
                /\ MustFetch(FALSE)'
      /\ connected => (connected' /\ \A p \in Procs : req'[p].op # "main")
      /\ ~connected' => \A p \in Procs : req'[p].op \in {"", "main"}
  ]_vars

\* C20 witness: the preload has failed at the vehicle-list endpoint and the
\* transport is connected, the cache empty.
C20_Witness ==
  /\ Replied /\ last.r.op = "main"
  /\ last.r.listCalls = 1 /\ last.r.err # ""
  /\ connected
  /\ MustFetch(FALSE)

\* C21: the process never exits on account of a handler; a request that
\* ends with an error leaves the server connected and its slot free for the
\* next request, the cache either untouched or holding the answer this
\* request fetched, and the token either untouched or the one this request
\* was given by the authorization endpoint.
C21_ErrorsDoNotTerminate ==
  /\ ~exited
  /\ (Replied /\ last.r.out = "error") =>
       /\ connected
       /\ req[last.p].pc = "idle"
       /\ \/ vehiclesCache = last.cache0 /\ lastVehicleFetch = last.fetch0
          \/ /\ last.r.listCalls = 1
             /\ vehiclesCache = last.r.ret
             /\ lastVehicleFetch = last.r.nowL
       /\ \/ accessToken = last.tok0 /\ tokenExpiration = last.exp0
          \/ \E resp \in ServerAuthResponses :
               /\ resp.kind = "ok"
               /\ accessToken = resp.access_token
               /\ accessToken = last.r.token
               /\ tokenExpiration = JsAdd(Num(now), JsTimes(resp.expires_in, 1000))

\* C21 witness: with vehicles cached and a token held, a call of a tool the
\* server does not know has ended with an error and the server is up.
C21_Witness ==
  /\ Replied /\ last.r.out = "error" /\ last.r.msg = "Unknown tool"
  /\ Len(vehiclesCache) > 0
  /\ accessToken \in Tokens
  /\ connected /\ ~exited
  /\ req[last.p].pc = "idle"

\* C22: a refresh_vehicles or wake_up call whose vehicle-list request or
\* wake request failed at the remote API ends with an error result.
C22_ApiFailureSurfaced ==
  ( /\ Replied /\ last.r.op \in {"refresh_vehicles", "wake_up"}
    /\ last.r.listCalls + last.r.wakeCalls >= 1
    /\ last.r.err \in {"Failed to fetch vehicles", "Failed to wake up vehicle"} )
    => last.r.out = "error"

\* C23: after a 2xx answer of the vehicle-list endpoint getVehicles()
\* returns a sequence: the array of the answer, element for element, or the
\* empty sequence.
C23_ListReturnsSequence ==
  (Replied /\ last.r.op = "getVehicles" /\ last.r.out = "ok") =>
    /\ last.r.retIsArray
    /\ last.r.ret \in VehicleLists

\* The descriptor of the vehicle {id "1", vin "VIN1", display_name "Car"}.
CarDescriptor ==
  [uri |-> "tesla://1", mimeType |-> "application/json", name |-> "Car"]

\* A refresh_vehicles call has just ended that the vehicle-list endpoint
\* answered with the single vehicle Car1.
RefreshedToCar ==
  /\ Replied /\ last.r.op = "refresh_vehicles"
  /\ last.r.listCalls = 1 /\ last.r.err = ""
  /\ last.r.ret = <<Car1>>

\* Request p is a ListResources call that starts and ends in this step.
ListsAtOnce(p) ==
  req[p].pc = "idle" /\ last'.p = p /\ last'.r.op = "ListResources"

\* C24 as stated: with credentials set, a ListResources call that finds the
\* cache as it is at the start returns zero entries without raising; a
\* ListResources call right after a refresh_vehicles call answered with the
\* single vehicle Car1 returns exactly its descriptor.
C24_EndToEnd ==
  [][\A p \in Procs :
       /\ ( /\ last'.p = p /\ last'.r.op = "ListResources"
            /\ last'.r.n0 = 0 /\ last'.r.fetch0 = 0
            /\ ~CredentialMissing ) =>
            last'.r.out = "ok" /\ Len(last'.r.reply) = 0
       /\ (RefreshedToCar /\ ListsAtOnce(p)) => last'.r.reply = <<CarDescriptor>>
  ]_vars

\* C24 amended: the first call returns without raising, with the descriptors
\* of what its fetch stored: zero entries when the fetch fails or the
\* endpoint answers without vehicles; the second part as stated.
C24_EndToEndAmended ==
  [][\A p \in Procs :
       /\ ( /\ last'.p = p /\ last'.r.op = "ListResources"
            /\ last'.r.n0 = 0 /\ last'.r.fetch0 = 0
            /\ ~CredentialMissing ) =>
            /\ last'.r.out = "ok"
            /\ Len(last'.r.reply) = Len(vehiclesCache')
            /\ (last'.r.err # "" /\ Len(vehiclesCache) = 0) => Len(last'.r.reply) = 0
            /\ (last'.r.err = "" /\ Len(last'.r.ret) = 0) => Len(last'.r.reply) = 0
       /\ (RefreshedToCar /\ ListsAtOnce(p)) =>
            /\ last'.r.reply = <<CarDescriptor>>
            /\ last'.r.listCalls = 0
  ]_vars

\* C24 witness: at the instant of the fetch that stored the single vehicle,
\* a ListResources call has returned its descriptor from the cache.
C24_Witness ==
  /\ Replied /\ last.r.op = "ListResources"
  /\ ~last.r.fetched
  /\ last.r.n0 = 1 /\ last.r.nowL = last.r.fetch0
  /\ last.r.reply = <<CarDescriptor>>

\* C25: a call of the cache function, and the one getAccessToken() call it
\* makes, send at most one request to the authorization endpoint and at
\* most one vehicle-list request; the answer to a request, good or bad, is
\* followed by no second request of the same kind.
C25_NoRetry ==
  [][\A p \in Procs :
       /\ req'[p].authCalls <= 1 /\ req'[p].listCalls <= 1
       /\ last'.r.authCalls <= 1 /\ last'.r.listCalls <= 1
       /\ (req[p].pc = "list_authorize" /\ Stepped(p)) =>
            After(p).authCalls = 1 /\ After(p).pc \in {"list_get", "done"}
       /\ (req[p].pc = "list_get" /\ Stepped(p)) =>
            After(p).listCalls = 1 /\ After(p).pc = "done"
  ]_vars

\* C25 witness: a call has ended after a vehicle-list request that failed,
\* having sent one authorization request and one vehicle-list request.
C25_Witness ==
  /\ Replied
  /\ last.r.err = "Failed to fetch vehicles"
  /\ last.r.authCalls = 1
  /\ last.r.listCalls = 1

\* A token is held whose expiry instant lies after the present instant.
ValidTokenHeld == ~Falsy(accessToken) /\ ExpiryAfter(tokenExpiration, now)

\* The call that has just ended went through a refresh that failed: the
\* request was refused or could not be sent, or its answer lacked the
\* token or the validity.
LastRefreshFailed ==
  /\ Replied /\ last.r.refresh
  /\ \/ last.r.err \in {"Failed to authorize with Tesla API",
                         "Could not obtain access token"}
     \/ tokenExpiration.nan

\* C26: after a refresh that failed, the next call of getAccessToken() made
\* while no valid token is held sends a request to the authorization
\* endpoint, and when the endpoint answers with a token the call returns it.
C26_RefreshNotLatched ==
  [][\A p \in Procs :
       /\ ( /\ LastRefreshFailed
            /\ req[p].pc = "idle" /\ Stepped(p)
            /\ ~ValidTokenHeld /\ ~CredentialMissing ) =>
            /\ After(p).authCalls = 1
            /\ After(p).pc \in {"list_authorize", "wake_authorize"}
       /\ ( /\ req[p].pc \in {"list_authorize", "wake_authorize"} /\ Stepped(p)
            /\ After(p).err = "" /\ accessToken' \in Tokens ) =>
            After(p).token = accessToken'
  ]_vars

\* C27: when the string given to wake_up is the id of one cached vehicle and
\* the vehicle_id or VIN of another, the lookup selects the vehicle whose id
\* it is, whichever of the two comes first in the cache.
C27_IdFirst ==
  WakeUpReplied =>
    LET vs == last.r.ret IN
    \A k, j \in 1..Len(vs) :
      ( /\ k # j
        /\ vs[k].id = last.r.arg
        /\ \/ ToString(vs[j].vehicle_id) = last.r.arg
           \/ vs[j].vin = last.r.arg ) =>
        last.r.found = vs[k].id

\* C28: while cache refreshes overlap, no step makes the fetch-instant
\* smaller, and a step that stores the answer of a request leaves in the
\* cache the instant at which some request still in flight or just ended
\* was issued, never an instant before the one already stored.
C28_FetchInstantMonotonic ==
  [][/\ lastVehicleFetch' >= lastVehicleFetch
     /\ \A p \in Procs :
          (req[p].pc = "list_get" /\ Stepped(p) /\ After(p).fetched
             /\ After(p).nowL < lastVehicleFetch) =>
            vehiclesCache' = vehiclesCache
  ]_vars

\* The held token and expiry instant are those one authorization answer
\* resp has set, at some instant between the start and the present.
SetBy(resp) ==
  /\ resp.kind = "ok"
  /\ accessToken = resp.access_token
  /\ tokenExpiration.nan = resp.expires_in.nan
  /\ ~resp.expires_in.nan =>
       (tokenExpiration.val - resp.expires_in.val * 1000) \in StartTime..now

\* C29: in every reachable state the held access token and the held expiry
\* instant have been set by one and the same authorization answer, or both
\* are as the constructor left them, null and 0.
C29_TokenExpiryPaired ==
  \/ accessToken = "null" /\ tokenExpiration = Num(0)
  \/ \E resp \in PairAuthResponses : SetBy(resp)

\* C29 witness: a refresh that was started while another was in flight has
\* completed after it, replacing the still valid "tokA" by "tokB" and the
\* expiry instant by the one of its own answer.
C29_Witness ==
  /\ Replied /\ last.r.refresh
  /\ last.tok0 = "tokA" /\ ExpiryAfter(last.exp0, now)
  /\ accessToken = "tokB"
  /\ tokenExpiration = Num(now + 60000)

\* C30: of the steps of a wake_up call, only the one in which its own
\* initial cache get stores the answer of the vehicle-list endpoint changes
\* the cached vehicles or the fetch-instant; the lookup, the token steps and
\* the answer of the wake endpoint, success or failure, leave both as they
\* are.
C30_WakeLeavesCache ==
  [][\A p \in Procs :
       ( /\ Stepped(p) /\ After(p).op = "wake_up"
         /\ req[p].pc # "list_get" ) =>
         /\ vehiclesCache' = vehiclesCache
         /\ lastVehicleFetch' = lastVehicleFetch
  ]_vars

\* C30 witness: the wake endpoint has reported the vehicle with id "12345"
\* online, and the cache still holds it asleep.
C30_Witness ==
  /\ WakeUpReplied
  /\ last.r.wakeCalls = 1
  /\ last.r.found = "12345" /\ last.r.result = "online"
  /\ vehiclesCache = <<Car2, Car1>>
  /\ vehiclesCache[1].state = "asleep"

\* The request called the cache function without forceRefresh while the
\* cache was empty after a list call that had succeeded with no vehicles.
EmptyFetched(r) == r.op \in GetFalseOps /\ r.n0 = 0 /\ r.fetch0 > 0

\* C31 as stated: after a list call that succeeded with zero vehicles, every
\* later get(false) sends a new request to the vehicle-list endpoint.
C31_EmptyNeverFresh ==
  (Replied /\ EmptyFetched(last.r)) => last.r.listCalls = 1

\* C31 amended: after a list call that succeeded with zero vehicles, every
\* later get(false) calls teslaService.getVehicles(); the call sends a new
\* request to the vehicle-list endpoint unless the held token has expired
\* and the refresh it then needs fails, in which case none is sent.
C31_EmptyNeverFreshAmended ==
  (Replied /\ EmptyFetched(last.r)) =>
    /\ last.r.fetched
    /\ \/ last.r.listCalls = 1
       \/ /\ last.r.listCalls = 0
          /\ last.r.authCalls = 1 /\ last.r.refresh
          /\ last.r.token = "null"

\* C31 witness: a get(false) made at the very instant of the fetch that
\* returned no vehicles has sent a request to the vehicle-list endpoint.
C31_Witness ==
  /\ Replied /\ EmptyFetched(last.r)
  /\ last.r.nowL = last.r.fetch0
  /\ last.r.listCalls = 1

\* C32: no step changes the registration fact the constructor read, and
\* every getVehicles() and wakeUp() call of a service that started
\* unregistered ends in an error without a request to the vehicle-list or
\* the wake endpoint.
C32_RegistrationFixed ==
  [][/\ isRegistered' = isRegistered
     /\ \A p \in Procs :
          (Stepped(p) /\ ~isRegistered /\ After(p).op \in ServiceOps) =>
            /\ After(p).listCalls = 0 /\ After(p).wakeCalls = 0
            /\ After(p).pc = "done" =>
                 After(p).out = "error" /\ After(p).err # ""
  ]_vars

\* C32 witness: the unregistered service has obtained a token and the
\* getVehicles() call has failed all the same, without a list request.
C32_Witness ==
  /\ Replied /\ ~isRegistered
  /\ last.r.op = "getVehicles"
  /\ last.r.refresh /\ last.r.token = "tokA"
  /\ last.r.out = "error" /\ last.r.listCalls = 0

\* C33: ListTools returns no tool exactly when the cache get returned no
\* vehicle and the three tools wake_up, refresh_vehicles, debug_vehicles
\* otherwise; refresh_vehicles and debug_vehicles called by name are served,
\* whatever the cache holds.
C33_ToolList ==
  Replied =>
    /\ last.r.op = "ListTools" =>
         /\ last.r.out = "ok"
         /\ (last.r.tools = <<>>) <=> (Len(last.r.ret) = 0)
         /\ Len(last.r.ret) > 0 => last.r.tools = ToolNames
    /\ last.r.op \in {"refresh_vehicles", "debug_vehicles"} =>
         /\ last.r.out = "ok"
         /\ last.r.msg \in {"Successfully refreshed the vehicle list",
                            "No vehicles found", "Found"}

\* C33 witness: refresh_vehicles has been served and has found no vehicle
\* on a cache that was empty after a fetch, a state in which ListTools
\* returns no tool.
C33_Witness ==
  /\ Replied /\ last.r.op = "refresh_vehicles"
  /\ last.r.out = "ok" /\ last.r.count = 0
  /\ last.r.n0 = 0 /\ last.r.fetch0 > 0
  /\ Tools(vehiclesCache) = <<>>

\* C34: a wake_up call without a vehicle_id ends with the error 'Vehicle ID
\* is required', without a call of the cache function and without a request
\* to any endpoint.
C34_VehicleIdRequired ==
  (WakeUpReplied /\ last.r.arg = VehicleIdString(NoVehicleId)) =>
    /\ last.r.out = "error" /\ last.r.msg = "Vehicle ID is required"
    /\ ~last.r.fetched
    /\ last.r.authCalls = 0 /\ last.r.listCalls = 0 /\ last.r.wakeCalls = 0

\* The step handles a request to /callback.
CallbackHandled ==
  oauth'.callbacks > oauth.callbacks /\ oauth'.cb.path = "/callback"

\* C35: the utility sends a token request only in a step that handles a
\* callback without an error parameter whose state is the one generated at
\* startup; a callback with an error parameter or another state ends the
\* process with status 1 and sends no token request; .env is written only
\* on the answer to a token request.
C35_ExchangeGuarded ==
  [][/\ oauth'.tokenCalls > oauth.tokenCalls =>
          /\ CallbackHandled
          /\ oauth'.cb.error = "null"
          /\ oauth'.cb.state = oauth.state
     /\ ( /\ CallbackHandled
          /\ oauth'.cb.error # "null" \/ oauth'.cb.state # oauth.state ) =>
          /\ oauth'.status = "exit1"
          /\ oauth'.tokenCalls = oauth.tokenCalls
     /\ oauth'.envToken # oauth.envToken => oauth.inflight > 0
  ]_vars

====
